---------------------------- MODULE Spec2Model ----------------------------
(***************************************************************************)
(* The buffer notebook (Day1_session4_topic1_usecases.ipynb) as a state    *)
(* machine: reverse_inplace, the binary header parse and build_packet,     *)
(* each run statement by statement over a heap of Python buffer objects.   *)
(***************************************************************************)
EXTENDS Integers, Sequences, FiniteSets, TLC

(* ------------------------------ bounds -------------------------------- *)
MaxParts == 2
MaxPartLen == 2
MaxBufLen == 4
MaxReverseCalls == 2
MaxParseCalls == 3
MaxHeaderLen == 9
MaxOffset == 1
\* how far the clock may move between two reads, beyond the time slept
MaxLate == 1
\* the latest time the download cells may begin at
MaxStart == 3
\* the threads that call build_packet or unpack_from at the same time
NumThreads == 2
\* the longest arrays the two loops are given
MaxLoopLen == 9

(* ------------------------- values and inputs -------------------------- *)
\* Sample byte values (a byte is 0..255) of the buffers reverse_inplace is
\* given, and of the parts build_packet is given (bytearray(n) fills with 0,
\* so a part's sampled bytes are the ones that differ from the fill).
ByteVals == {0, 1, 255}

PartVals == {1, 255}

\* Sample bytes of the random header. TLC's integers are 32-bit signed, so
\* the sampled bytes keep every decoded 4-byte field below 2^31.
HeaderVals == {1, 127}

\* The values the caller writes when it mutates a buffer after a call.
WriteVals == {0, 170}

\* None, and a name that is not bound yet
None == 0

\* The view name before it is bound to a memoryview.
NoView == [obj |-> None, released |-> FALSE]

BSeq(S, n) == UNION {[1..k -> S] : k \in 0..n}

\* b"HEAD", b"DATA", b"TAIL"
HEAD == <<72, 69, 65, 68>>
DATA == <<68, 65, 84, 65>>
TAIL == <<84, 65, 73, 76>>

\* b"abcdefghijklmnopqrstuvwxyz"
Alphabet == [i \in 1..26 |-> 96 + i]

Bytes(d) == [kind |-> "bytes", data |-> d]
Bytearray(d) == [kind |-> "bytearray", data |-> d]
\* memoryview(array.array('H', ...)): two bytes per item
ArrayH(d) == [kind |-> "array_H", data |-> d]
\* an object whose __len__ returns a negative number, and one without __len__
NegLen == [kind |-> "neg_len", data |-> <<>>]
NoLen == [kind |-> "no_len", data |-> <<>>]

\* The parts a call of build_packet is given: bytes, bytearray or a
\* memoryview whose items are not single bytes, or an object that has no
\* proper length.
PartObjects ==
    {Bytes(d) : d \in BSeq(PartVals, MaxPartLen)}
      \cup {Bytearray(d) : d \in BSeq(PartVals, MaxPartLen)}
      \cup {ArrayH(d) : d \in {s \in BSeq(PartVals, MaxPartLen) : Len(s) % 2 = 0}}
      \cup {NegLen, NoLen}

PartLists ==
    BSeq(PartObjects, MaxParts) \cup {<<Bytes(HEAD), Bytes(DATA), Bytes(TAIL)>>}

(* ------------------------- Python primitives -------------------------- *)
\* len(p): the number of items, not of bytes
itemsize(o) == IF o.kind = "array_H" THEN 2 ELSE 1

len(o) == Len(o.data) \div itemsize(o)

format(o) == IF o.kind = "array_H" THEN "H" ELSE "B"

\* A faulty variant of LenError (sensitivity of C14): the error of len() is
\* swallowed and the length taken as 0.
LenErrorIgnored(o) == "none"

\* What len(o) raises: ValueError (__len__() should return >= 0), TypeError
\* (object has no len()), or nothing.
LenError(o) ==
    IF o.kind = "neg_len" THEN "ValueError"
    ELSE IF o.kind = "no_len" THEN "TypeError" ELSE "none"

readonly(o) == o.kind = "bytes"

Min(a, b) == IF a < b THEN a ELSE b

RECURSIVE SumLen(_, _)
\* sum(len(p) for p in parts), over the heap h
SumLen(h, ps) == IF ps = <<>> THEN 0 ELSE len(h[Head(ps)]) + SumLen(h, Tail(ps))

RECURSIVE SumError(_, _)
\* What sum(len(p) for p in parts) raises: the error of the first len() that
\* fails, or nothing.
SumError(h, ps) ==
    IF ps = <<>> THEN "none"
    ELSE IF LenError(h[Head(ps)]) # "none" THEN LenError(h[Head(ps)])
    ELSE SumError(h, Tail(ps))

\* bytearray(n): n zero bytes
Zeros(n) == [i \in 1..n |-> 0]

\* mv[lo:hi] = src on a byte view of d: the slice is clamped to the buffer,
\* and its structure (format, length) must equal the source's.
SliceFits(d, lo, hi, src) ==
    /\ format(src) = "B"
    /\ Min(hi, Len(d)) - Min(lo, Len(d)) = len(src)

SliceAssign(d, lo, hi, src) ==
    [i \in 1..Len(d) |->
        IF i > lo /\ i <= lo + len(src) THEN src.data[i - lo] ELSE d[i]]

\* range(3): the downloads of main_sync and of main_async
NumDownloads == 3

\* time.sleep(1), asyncio.sleep(1): the seconds a download takes
Delay == 1

\* A line of output: "Start downloading f" or "Finished downloading f".
Event(e, f) == [event |-> e, file_id |-> f]

\* The times a read of the clock may give: time does not run backwards.
Later(t) == t..(t + MaxLate)

(* ------------------------------- state -------------------------------- *)
VARIABLES
    pc,          \* the statement about to run
    heap,        \* the objects: heap[r] is the object with reference r
    pre,         \* the heap when the current call began
    calls,       \* calls begun so far
    exc,         \* the exception that ended the call, or "none"
    mv,          \* the function's memoryview: [obj, released]
    parts, parts0, total_size, buf, offset, idx, part_length, result,
    touched,     \* what the caller wrote through after the call
    written,     \* how many times each byte of buf has been copied into
    allocs,      \* the buffers build_packet has allocated
    data, left, right,
    swaps,       \* the swaps the current call of reverse_inplace has made
    orig,        \* the heap before the first call
    header, mv_head, magic, major, minor,
    at,          \* the offset argument of unpack_from
    layout,      \* the format argument of unpack_from
    log,         \* the calls of unpack_from so far: buffer, offset, outcome
    trace,       \* the lines printed so far: [event, file_id]
    clock,       \* the time, in seconds
    start, end,  \* the times the cell reads before and after the run
    file_id,     \* main_sync's loop variable
    ready,       \* the event loop's queue of callbacks that are ready
    scheduled,   \* the event loop's heap of timers
    coro,        \* where each download_file coroutine stands
    main,        \* where main_async stands
    nfinished,   \* gather's count of finished children
    ntodo,       \* the callbacks left to run in this turn of the loop
    stopping,    \* the loop has been told to stop
    tid,         \* the thread that is running
    frames,      \* the frames of the threads that are not running
    fields,      \* what a thread's call of unpack_from gave
    x, y,        \* the two arrays the loops add
    result_normal, result_unrolled,
    index,       \* the loop variable i of the loop that is running
    it,          \* the value the running loop's range gives next
    writes,      \* how often each index of result_unrolled has been written
    tmp,         \* the temporary file: [data, closed]
    mm,          \* the mapping of the file: [exports, closed]
    mv_map       \* the memoryview of the mapping: [obj, released]

vars == <<pc, heap, pre, calls, exc, mv, parts, parts0, total_size, buf,
          offset, idx, part_length, result, touched, written, allocs, data,
          left, right, orig, swaps,
          header, mv_head, magic, major, minor, at, layout, log,
          trace, clock, start, end, file_id, ready, scheduled, coro, main, nfinished,
          ntodo, stopping, tid, frames, fields,
          x, y, result_normal, result_unrolled, index, it, writes,
          tmp, mm, mv_map>>

bpVars == <<parts, parts0, total_size, buf, offset, idx, part_length, result,
            touched, written, allocs>>

revVars == <<data, left, right, orig, swaps>>

hpVars == <<header, mv_head, magic, major, minor, at, layout, log>>

thVars == <<tid, frames, fields>>

mmVars == <<tmp, mm, mv_map>>

\* The file and the mapping before the cell makes them.
NoFile == [data |-> <<>>, closed |-> FALSE]

NoMap == [exports |-> 0, closed |-> FALSE]

MmIdle == tmp = NoFile /\ mm = NoMap /\ mv_map = NoView

lpVars == <<x, y, result_normal, result_unrolled, index, it, writes>>

LpIdle ==
    /\ x = <<>> /\ y = <<>> /\ result_normal = <<>> /\ result_unrolled = <<>>
    /\ index = None /\ it = None /\ writes = <<>>

ThIdle == tid = None /\ frames = <<>> /\ fields = [raised |-> "none", values |-> <<>>]

loopVars == <<ready, scheduled, coro, main, nfinished, ntodo, stopping>>

dlVars == <<trace, clock, start, end, file_id, loopVars>>

\* The variables of the cells that are not running.
RevIdle ==
    data = None /\ left = None /\ right = None /\ orig = <<>> /\ swaps = 0

HpIdle ==
    /\ header = None /\ mv_head = NoView /\ at = None /\ log = {}
    /\ layout = <<>>
    /\ magic = None /\ major = None /\ minor = None

LoopIdle ==
    /\ ready = <<>> /\ scheduled = <<>> /\ coro = <<>> /\ main = "none"
    /\ nfinished = 0 /\ ntodo = 0 /\ stopping = FALSE

DlIdle ==
    /\ trace = <<>> /\ clock = 0 /\ start = None /\ end = None
    /\ file_id = None /\ LoopIdle

BpIdle ==
    /\ parts = <<>> /\ parts0 = <<>> /\ total_size = None /\ buf = None
    /\ offset = None /\ idx = 0 /\ part_length = None /\ result = None
    /\ touched = "none" /\ written = <<>> /\ allocs = 0

bpLocals == <<total_size, buf, offset, idx, part_length, result>>

(* --------------------------- build_packet ----------------------------- *)
InitBuild ==
    /\ \E ps \in PartLists :
          /\ heap = ps
          /\ parts = [i \in 1..Len(ps) |-> i]
    /\ pre = heap
    /\ parts0 = parts
    /\ pc = "bp_sum"
    /\ calls = 1
    /\ exc = "none"
    /\ mv = NoView
    /\ total_size = None
    /\ buf = None
    /\ offset = None
    /\ idx = 0
    /\ part_length = None
    /\ result = None
    /\ touched = "none"
    /\ written = <<>>
    /\ allocs = 0
    /\ RevIdle
    /\ HpIdle
    /\ DlIdle
    /\ ThIdle
    /\ LpIdle
    /\ MmIdle

\* total_size = sum(len(p) for p in parts)
BpSum ==
    /\ pc = "bp_sum"
    /\ SumError(heap, parts) = "none"
    /\ total_size' = SumLen(heap, parts)
    /\ pc' = "bp_alloc"
    /\ UNCHANGED <<mmVars, lpVars, thVars, dlVars, revVars, hpVars, written,
                   allocs, heap, pre, calls, exc, mv, parts, parts0, buf,
                   offset, idx, part_length, result, touched>>

\* the same statement raising the error of a len() that fails
BpSumRaise ==
    /\ pc = "bp_sum"
    /\ SumError(heap, parts) # "none"
    /\ exc' = SumError(heap, parts)
    /\ pc' = "bp_raised"
    /\ UNCHANGED <<mmVars, lpVars, thVars, dlVars, revVars, hpVars, written,
                   allocs, heap, pre, calls, mv, parts, parts0, bpLocals,
                   touched>>

\* A faulty variant of BpAlloc (sensitivity of C2): one byte too many.
BpAllocExtra ==
    /\ pc = "bp_alloc"
    /\ heap' = Append(heap, Bytearray(Zeros(total_size + 1)))
    /\ buf' = Len(heap) + 1
    /\ allocs' = allocs + 1
    /\ written' = Zeros(total_size + 1)
    /\ pc' = "bp_view"
    /\ UNCHANGED <<mmVars, lpVars, thVars, dlVars, revVars, hpVars, pre,
                   calls, exc, mv, parts, parts0, total_size, offset, idx,
                   part_length, result, touched>>

\* buf = bytearray(total_size)
BpAlloc ==
    /\ pc = "bp_alloc"
    /\ heap' = Append(heap, Bytearray(Zeros(total_size)))
    /\ buf' = Len(heap) + 1
    /\ allocs' = allocs + 1
    /\ written' = Zeros(total_size)
    /\ pc' = "bp_view"
    /\ UNCHANGED <<mmVars, lpVars, thVars, dlVars, revVars, hpVars, pre,
                   calls, exc, mv, parts, parts0, total_size, offset, idx,
                   part_length, result, touched>>

\* mv = memoryview(buf)
BpView ==
    /\ pc = "bp_view"
    /\ mv' = [obj |-> buf, released |-> FALSE]
    /\ pc' = "bp_offset"
    /\ UNCHANGED <<mmVars, lpVars, thVars, dlVars, revVars, hpVars, written,
                   allocs, heap, pre, calls, exc, parts, parts0, bpLocals,
                   touched>>

\* A faulty variant of BpOffset (sensitivity of C19): the walk starts at 1.
BpOffsetFromOne ==
    /\ pc = "bp_offset"
    /\ offset' = 1
    /\ pc' = "bp_for"
    /\ UNCHANGED <<mmVars, lpVars, thVars, dlVars, revVars, hpVars, written,
                   allocs, heap, pre, calls, exc, mv, parts, parts0,
                   total_size, buf, idx, part_length, result, touched>>

\* offset = 0
BpOffset ==
    /\ pc = "bp_offset"
    /\ offset' = 0
    /\ pc' = "bp_for"
    /\ UNCHANGED <<mmVars, lpVars, thVars, dlVars, revVars, hpVars, written,
                   allocs, heap, pre, calls, exc, mv, parts, parts0,
                   total_size, buf, idx, part_length, result, touched>>

\* for part in parts: the next part, or the end of the loop
BpFor ==
    /\ pc = "bp_for"
    /\ IF idx < Len(parts)
          THEN idx' = idx + 1 /\ pc' = "bp_len"
          ELSE idx' = idx /\ pc' = "bp_release"
    /\ UNCHANGED <<mmVars, lpVars, thVars, dlVars, revVars, hpVars, written,
                   allocs, heap, pre, calls, exc, mv, parts, parts0,
                   total_size, buf, offset, part_length, result, touched>>

\* part_length = len(part)
BpLen ==
    /\ pc = "bp_len"
    /\ part_length' = len(heap[parts[idx]])
    /\ pc' = "bp_copy"
    /\ UNCHANGED <<mmVars, lpVars, thVars, dlVars, revVars, hpVars, written,
                   allocs, heap, pre, calls, exc, mv, parts, parts0,
                   total_size, buf, offset, idx, result, touched>>

\* The copies made so far into each byte of the new buffer, after n more
\* bytes are copied from index lo on (indices count from 0).
Written(w, lo, n) ==
    [i \in 1..Len(w) |-> IF i > lo /\ i <= lo + n THEN w[i] + 1 ELSE w[i]]

\* A faulty variant of BpCopy (sensitivity of C12): repeated concatenation,
\* which copies everything written so far again with each part.
BpCopyRecopy ==
    /\ pc = "bp_copy"
    /\ SliceFits(heap[mv.obj].data, offset, offset + part_length, heap[parts[idx]])
    /\ heap' = [heap EXCEPT ![mv.obj].data =
                  SliceAssign(@, offset, offset + part_length, heap[parts[idx]])]
    /\ written' = Written(written, 0, offset + part_length)
    /\ pc' = "bp_advance"
    /\ UNCHANGED <<mmVars, lpVars, thVars, dlVars, revVars, hpVars, allocs,
                   pre, calls, exc, mv, parts, parts0, bpLocals, touched>>

\* A faulty variant of BpCopy (sensitivity of C7): the assignment the wrong
\* way round, part[:] = mv[offset:offset + part_length], writes the source.
BpCopyReversed ==
    /\ pc = "bp_copy"
    /\ ~readonly(heap[parts[idx]])
    /\ SliceFits(heap[mv.obj].data, offset, offset + part_length, heap[parts[idx]])
    /\ heap' = [heap EXCEPT ![parts[idx]].data =
                  SubSeq(heap[mv.obj].data, offset + 1, offset + part_length)]
    /\ pc' = "bp_advance"
    /\ UNCHANGED <<mmVars, lpVars, thVars, dlVars, revVars, hpVars, written,
                   allocs, pre, calls, exc, mv, parts, parts0, bpLocals,
                   touched>>

\* mv[offset:offset + part_length] = part
BpCopy ==
    /\ pc = "bp_copy"
    /\ SliceFits(heap[mv.obj].data, offset, offset + part_length, heap[parts[idx]])
    /\ heap' = [heap EXCEPT ![mv.obj].data =
                  SliceAssign(@, offset, offset + part_length, heap[parts[idx]])]
    /\ written' = Written(written, offset, part_length)
    /\ pc' = "bp_advance"
    /\ UNCHANGED <<mmVars, lpVars, thVars, dlVars, revVars, hpVars, allocs,
                   pre, calls, exc, mv, parts, parts0, bpLocals, touched>>

\* A faulty variant of BpCopyRaise (sensitivity of C9): the error is
\* swallowed and the buffer filled so far is returned.
BpCopyRaiseReturnsPartial ==
    /\ pc = "bp_copy"
    /\ ~SliceFits(heap[mv.obj].data, offset, offset + part_length, heap[parts[idx]])
    /\ exc' = "ValueError"
    /\ result' = buf
    /\ pc' = "bp_raised"
    /\ UNCHANGED <<mmVars, lpVars, thVars, dlVars, revVars, hpVars, written,
                   allocs, heap, pre, calls, mv, parts, parts0, total_size,
                   buf, offset, idx, part_length, touched>>

\* the same statement raising ValueError: the call ends, nothing is returned
BpCopyRaise ==
    /\ pc = "bp_copy"
    /\ ~SliceFits(heap[mv.obj].data, offset, offset + part_length, heap[parts[idx]])
    /\ exc' = "ValueError"
    /\ pc' = "bp_raised"
    /\ UNCHANGED <<mmVars, lpVars, thVars, dlVars, revVars, hpVars, written,
                   allocs, heap, pre, calls, mv, parts, parts0, bpLocals,
                   touched>>

\* A faulty variant of BpAdvance (sensitivity of C1): the write offset is not
\* advanced, so every part is copied to the front.
BpAdvanceStuck ==
    /\ pc = "bp_advance"
    /\ pc' = "bp_for"
    /\ UNCHANGED <<mmVars, lpVars, thVars, dlVars, revVars, hpVars, written,
                   allocs, heap, pre, calls, exc, mv, parts, parts0, bpLocals,
                   touched>>

\* offset += part_length
BpAdvance ==
    /\ pc = "bp_advance"
    /\ offset' = offset + part_length
    /\ pc' = "bp_for"
    /\ UNCHANGED <<mmVars, lpVars, thVars, dlVars, revVars, hpVars, written,
                   allocs, heap, pre, calls, exc, mv, parts, parts0,
                   total_size, buf, idx, part_length, result, touched>>

\* mv.release()
BpRelease ==
    /\ pc = "bp_release"
    /\ mv' = [mv EXCEPT !.released = TRUE]
    /\ pc' = "bp_return"
    /\ UNCHANGED <<mmVars, lpVars, thVars, dlVars, revVars, hpVars, written,
                   allocs, heap, pre, calls, exc, parts, parts0, bpLocals,
                   touched>>

\* A faulty variant of BpReturn (sensitivity of C8): a fast path that hands
\* back the only part itself instead of the copy.
BpReturnFastPath ==
    /\ pc = "bp_return"
    /\ result' = IF Len(parts) = 1 THEN parts[1] ELSE buf
    /\ pc' = "bp_returned"
    /\ UNCHANGED <<mmVars, lpVars, thVars, dlVars, revVars, hpVars, written,
                   allocs, heap, pre, calls, exc, mv, parts, parts0,
                   total_size, buf, offset, idx, part_length, touched>>

\* return buf
BpReturn ==
    /\ pc = "bp_return"
    /\ result' = buf
    /\ pc' = "bp_returned"
    /\ UNCHANGED <<mmVars, lpVars, thVars, dlVars, revVars, hpVars, written,
                   allocs, heap, pre, calls, exc, mv, parts, parts0,
                   total_size, buf, offset, idx, part_length, touched>>

\* After the call the caller writes one byte of a bytearray it holds: through
\* one of the sources it passed ...
CallerWritesPart ==
    /\ pc = "bp_returned"
    /\ \E k \in 1..Len(parts) :
          /\ ~readonly(heap[parts[k]])
          /\ \E i \in 1..Len(heap[parts[k]].data), v \in WriteVals :
                heap' = [heap EXCEPT ![parts[k]].data[i] = v]
    /\ touched' = "part"
    /\ pc' = "bp_mutated"
    /\ UNCHANGED <<mmVars, lpVars, thVars, dlVars, revVars, hpVars, written,
                   allocs, pre, calls, exc, mv, parts, parts0, bpLocals>>

\* ... or through the packet it was handed.
CallerWritesResult ==
    /\ pc = "bp_returned"
    /\ \E i \in 1..Len(heap[result].data), v \in WriteVals :
          heap' = [heap EXCEPT ![result].data[i] = v]
    /\ touched' = "result"
    /\ pc' = "bp_mutated"
    /\ UNCHANGED <<mmVars, lpVars, thVars, dlVars, revVars, hpVars, written,
                   allocs, pre, calls, exc, mv, parts, parts0, bpLocals>>

NextBuild ==
    \/ BpSum \/ BpSumRaise \/ BpAlloc \/ BpView \/ BpOffset \/ BpFor \/ BpLen \/ BpCopy
    \/ BpCopyRaise \/ BpAdvance \/ BpRelease \/ BpReturn \/ CallerWritesPart
    \/ CallerWritesResult

SpecBuild == InitBuild /\ [][NextBuild]_vars

(* -------------------------- reverse_inplace --------------------------- *)
\* The buffers reverse_inplace is called on: a bytearray, as in the
\* notebook, or an immutable bytes object.
ReverseObjects ==
    {Bytearray(d) : d \in BSeq(ByteVals, MaxBufLen)}
      \cup {Bytes(d) : d \in BSeq(ByteVals, MaxBufLen)}
      \cup {Bytearray(Alphabet)}

InitReverse ==
    /\ \E o \in ReverseObjects : heap = <<o>>
    /\ data = 1
    /\ pre = heap
    /\ orig = heap
    /\ pc = "rev_view"
    /\ calls = 1
    /\ exc = "none"
    /\ mv = NoView
    /\ left = None
    /\ right = None
    /\ swaps = 0
    /\ BpIdle
    /\ HpIdle
    /\ DlIdle
    /\ ThIdle
    /\ LpIdle
    /\ MmIdle

\* mv = memoryview(data)
RevView ==
    /\ pc = "rev_view"
    /\ mv' = [obj |-> data, released |-> FALSE]
    /\ pc' = "rev_init"
    /\ UNCHANGED <<mmVars, lpVars, thVars, dlVars, heap, pre, calls, exc,
                   revVars, bpVars, hpVars>>

\* left, right = 0, len(mv) - 1
RevInit ==
    /\ pc = "rev_init"
    /\ left' = 0
    /\ right' = len(heap[mv.obj]) - 1
    /\ pc' = "rev_while"
    /\ UNCHANGED <<mmVars, lpVars, thVars, dlVars, heap, pre, calls, exc, mv,
                   data, orig, swaps, bpVars, hpVars>>

\* A faulty variant of RevWhile (sensitivity of C20): left <= right, which
\* swaps the middle item of an odd-length buffer with itself.
RevWhileInclusive ==
    /\ pc = "rev_while"
    /\ pc' = IF left <= right THEN "rev_swap" ELSE "rev_release"
    /\ UNCHANGED <<mmVars, lpVars, thVars, dlVars, heap, pre, calls, exc, mv,
                   revVars, bpVars, hpVars>>

\* while left < right:
RevWhile ==
    /\ pc = "rev_while"
    /\ pc' = IF left < right THEN "rev_swap" ELSE "rev_release"
    /\ UNCHANGED <<mmVars, lpVars, thVars, dlVars, heap, pre, calls, exc, mv,
                   revVars, bpVars, hpVars>>

\* A faulty variant of SwapItems (sensitivity of C3): mv[left] = mv[right]
\* and then mv[right] = mv[left], which reads the item just written.
SwapItemsSequential(d, l, r) == [d EXCEPT ![l + 1] = d[r + 1]]

\* mv[left], mv[right] = mv[right], mv[left]: both right-hand values are
\* read before either item is written (the cursors count from 0).
SwapItems(d, l, r) == [d EXCEPT ![l + 1] = d[r + 1], ![r + 1] = d[l + 1]]

RevSwap ==
    /\ pc = "rev_swap"
    /\ ~readonly(heap[mv.obj])
    /\ heap' = [heap EXCEPT ![mv.obj].data = SwapItems(@, left, right)]
    /\ swaps' = swaps + 1
    /\ pc' = "rev_left"
    /\ UNCHANGED <<mmVars, lpVars, thVars, dlVars, pre, calls, exc, mv, data,
                   left, right, orig, bpVars, hpVars>>

\* the same statement on a read-only view: the first item assignment raises
\* TypeError (cannot modify read-only memory) and the call ends
RevSwapRaise ==
    /\ pc = "rev_swap"
    /\ readonly(heap[mv.obj])
    /\ exc' = "TypeError"
    /\ pc' = "rev_raised"
    /\ UNCHANGED <<mmVars, lpVars, thVars, dlVars, heap, pre, calls, mv,
                   revVars, bpVars, hpVars>>

\* A faulty variant of RevLeft (sensitivity of C21): the left cursor skips
\* an item.
RevLeftSkips ==
    /\ pc = "rev_left"
    /\ left' = left + 2
    /\ pc' = "rev_right"
    /\ UNCHANGED <<mmVars, lpVars, thVars, dlVars, heap, pre, calls, exc, mv,
                   data, right, orig, swaps, bpVars, hpVars>>

\* left += 1
RevLeft ==
    /\ pc = "rev_left"
    /\ left' = left + 1
    /\ pc' = "rev_right"
    /\ UNCHANGED <<mmVars, lpVars, thVars, dlVars, heap, pre, calls, exc, mv,
                   data, right, orig, swaps, bpVars, hpVars>>

\* A faulty variant of RevRight (sensitivity of C6): the right cursor stays.
RevRightStuck ==
    /\ pc = "rev_right"
    /\ pc' = "rev_while"
    /\ UNCHANGED <<mmVars, lpVars, thVars, dlVars, heap, pre, calls, exc, mv,
                   revVars, bpVars, hpVars>>

\* right -= 1
RevRight ==
    /\ pc = "rev_right"
    /\ right' = right - 1
    /\ pc' = "rev_while"
    /\ UNCHANGED <<mmVars, lpVars, thVars, dlVars, heap, pre, calls, exc, mv,
                   data, left, orig, swaps, bpVars, hpVars>>

\* mv.release(), and the function returns
RevRelease ==
    /\ pc = "rev_release"
    /\ mv' = [mv EXCEPT !.released = TRUE]
    /\ pc' = "rev_returned"
    /\ UNCHANGED <<mmVars, lpVars, thVars, dlVars, heap, pre, calls, exc,
                   revVars, bpVars, hpVars>>

\* The caller calls reverse_inplace on the same buffer again.
RevAgain ==
    /\ pc = "rev_returned"
    /\ calls < MaxReverseCalls
    /\ calls' = calls + 1
    /\ pre' = heap
    /\ mv' = NoView
    /\ left' = None
    /\ right' = None
    /\ swaps' = 0
    /\ pc' = "rev_view"
    /\ UNCHANGED <<mmVars, lpVars, thVars, dlVars, heap, exc, data, orig,
                   bpVars, hpVars>>

NextReverse ==
    \/ RevView \/ RevInit \/ RevWhile \/ RevSwap \/ RevSwapRaise \/ RevLeft
    \/ RevRight \/ RevRelease \/ RevAgain

SpecReverse == InitReverse /\ [][NextReverse]_vars

\* The statements of reverse_inplace: once called, the interpreter keeps
\* executing them (the caller need not call again).
RevStep ==
    \/ RevView \/ RevInit \/ RevWhile \/ RevSwap \/ RevSwapRaise \/ RevLeft
    \/ RevRight \/ RevRelease

FairReverse == SpecReverse /\ WF_vars(RevStep)

(* ------------------------ binary header parse ------------------------ *)
\* The format string ">IHH": big-endian, one 4-byte unsigned int, two
\* 2-byte unsigned shorts.
HeaderFormat == <<">", "I", "H", "H">>

\* The bytes a format code takes.
CodeSize(c) ==
    IF c = "I" THEN 4 ELSE IF c = "H" THEN 2 ELSE IF c = "B" THEN 1 ELSE 0

\* The format codes struct knows under the byte order ">".
StandardCodes ==
    {"x", "c", "b", "B", "?", "h", "H", "i", "I", "l", "L", "q", "Q", "e",
     "f", "d", "s", "p"}

\* The error of a format with a code struct does not know.
BadChar == "struct.error: bad char in struct format"

\* A faulty variant of BadFormat (sensitivity of C15): a code struct does
\* not know is skipped.
BadFormatSkipped(fmt) == FALSE

\* struct compiles the format before it looks at the buffer.
BadFormat(fmt) == \E i \in 2..Len(fmt) : fmt[i] \notin StandardCodes

RECURSIVE calcsize(_)
\* struct.calcsize: the bytes the whole format takes
calcsize(fmt) == IF fmt = <<>> THEN 0 ELSE CodeSize(Head(fmt)) + calcsize(Tail(fmt))

RECURSIVE LittleEndian(_)
\* A faulty variant of BigEndian (sensitivity of C4): least significant byte
\* first, the byte order "<" would give.
LittleEndian(bs) ==
    IF bs = <<>> THEN 0 ELSE bs[1] + 256 * LittleEndian(Tail(bs))

RECURSIVE BigEndian(_)
\* The unsigned integer of a run of bytes, most significant byte first.
BigEndian(bs) ==
    IF bs = <<>> THEN 0
    ELSE BigEndian(SubSeq(bs, 1, Len(bs) - 1)) * 256 + bs[Len(bs)]

RECURSIVE UnpackFields(_, _, _)
\* The fields of the format codes, read one after the other from the cursor.
UnpackFields(codes, buffer, cursor) ==
    IF codes = <<>> THEN <<>>
    ELSE <<BigEndian(SubSeq(buffer, cursor + 1, cursor + CodeSize(Head(codes))))>>
           \o UnpackFields(Tail(codes), buffer, cursor + CodeSize(Head(codes)))

\* A faulty variant of BufferTooSmall (sensitivity of C5): off by one, a
\* layout that ends exactly at the end of the buffer is refused.
BufferTooSmallStrict(size, buffer, off) == off + size >= Len(buffer)

\* unpack_from's check of the buffer: the format's bytes must lie inside it.
BufferTooSmall(size, buffer, off) == off + size > Len(buffer)

\* How a call ends: it returns values, or it raises.
Returned(values) == [raised |-> "none", values |-> values]

Raised(error) == [raised |-> error, values |-> <<>>]

\* A faulty variant of unpack_from (sensitivity of C10): a parser that keeps
\* its read cursor from one call to the next.
unpack_from_cursor(fmt, buffer, off) ==
    IF BufferTooSmall(calcsize(fmt), buffer, off + (calls - 1) * calcsize(fmt))
    THEN Raised("struct.error")
    ELSE Returned(UnpackFields(Tail(fmt), buffer, off + (calls - 1) * calcsize(fmt)))

\* struct.unpack_from(fmt, buffer, offset) for an offset >= 0: the tuple of
\* fields, or struct.error when the format has a code struct does not know
\* or the buffer is too small.
unpack_from(fmt, buffer, off) ==
    IF BadFormat(fmt) THEN Raised(BadChar)
    ELSE IF BufferTooSmall(calcsize(fmt), buffer, off) THEN Raised("struct.error")
    ELSE Returned(UnpackFields(Tail(fmt), buffer, off))

\* bytes 00 00 00 01 00 02 00 03 and eight more: a 16-byte header
ExampleHeader == <<0, 0, 0, 1, 0, 2, 0, 3>> \o Zeros(8)

\* a header whose two shorts are the largest the format can hold
HighHeader == <<127, 255, 255, 127, 255, 255, 255, 255>>

Headers == BSeq(HeaderVals, MaxHeaderLen) \cup {ExampleHeader, HighHeader}

InitParse ==
    /\ \E h \in Headers : heap = <<Bytearray(h)>>
    /\ header = 1
    /\ at \in 0..MaxOffset
    /\ layout = HeaderFormat
    /\ pre = heap
    /\ pc = "hp_view"
    /\ calls = 1
    /\ exc = "none"
    /\ mv = NoView
    /\ mv_head = NoView
    /\ magic = None
    /\ major = None
    /\ minor = None
    /\ log = {}
    /\ BpIdle
    /\ RevIdle
    /\ DlIdle
    /\ ThIdle
    /\ LpIdle
    /\ MmIdle

\* mv_head = memoryview(header)
HpView ==
    /\ pc = "hp_view"
    /\ mv_head' = [obj |-> header, released |-> FALSE]
    /\ pc' = "hp_unpack"
    /\ UNCHANGED <<mmVars, lpVars, thVars, dlVars, layout, heap, pre, calls,
                   exc, mv, header, magic, major, minor, at, log, bpVars,
                   revVars>>

Logged(outcome) ==
    log \cup {[call |-> calls, buffer |-> heap[mv_head.obj].data, offset |-> at,
               outcome |-> outcome]}

\* A faulty variant of HpUnpack (sensitivity of C11): a parse that scrubs
\* the bytes it has read, through the writable view.
HpUnpackScrubs ==
    /\ pc = "hp_unpack"
    /\ LET t == unpack_from(layout, heap[mv_head.obj].data, at) IN
          /\ t.raised = "none"
          /\ Len(t.values) = 3
          /\ magic' = t.values[1]
          /\ major' = t.values[2]
          /\ minor' = t.values[3]
          /\ log' = Logged(t)
    /\ heap' = [heap EXCEPT ![mv_head.obj].data =
                  [i \in 1..Len(@) |-> IF i > at /\ i <= at + 8 THEN 0 ELSE @[i]]]
    /\ pc' = "hp_release"
    /\ UNCHANGED <<mmVars, lpVars, thVars, dlVars, layout, pre, calls, exc,
                   mv, header, mv_head, at, bpVars, revVars>>

\* magic, major, minor = struct.unpack_from(">IHH", mv_head, 0)
HpUnpack ==
    /\ pc = "hp_unpack"
    /\ LET t == unpack_from(layout, heap[mv_head.obj].data, at) IN
          /\ t.raised = "none"
          /\ Len(t.values) = 3
          /\ magic' = t.values[1]
          /\ major' = t.values[2]
          /\ minor' = t.values[3]
          /\ log' = Logged(t)
    /\ pc' = "hp_release"
    /\ UNCHANGED <<mmVars, lpVars, thVars, dlVars, layout, heap, pre, calls,
                   exc, mv, header, mv_head, at, bpVars, revVars>>

\* the same statement raising struct.error: the cell stops there
HpUnpackRaise ==
    /\ pc = "hp_unpack"
    /\ LET t == unpack_from(layout, heap[mv_head.obj].data, at) IN
          /\ t.raised # "none"
          /\ exc' = t.raised
          /\ log' = Logged(t)
    /\ pc' = "hp_raised"
    /\ UNCHANGED <<mmVars, lpVars, thVars, dlVars, layout, heap, pre, calls,
                   mv, header, mv_head, magic, major, minor, at, bpVars,
                   revVars>>

\* mv_head.release()
HpRelease ==
    /\ pc = "hp_release"
    /\ mv_head' = [mv_head EXCEPT !.released = TRUE]
    /\ pc' = "hp_print"
    /\ UNCHANGED <<mmVars, lpVars, thVars, dlVars, layout, heap, pre, calls,
                   exc, mv, header, magic, major, minor, at, log, bpVars,
                   revVars>>

\* the three print statements
HpPrint ==
    /\ pc = "hp_print"
    /\ pc' = "hp_done"
    /\ UNCHANGED <<mmVars, lpVars, thVars, dlVars, heap, pre, calls, exc, mv,
                   hpVars, bpVars, revVars>>

\* The caller parses the same header again, at any offset; magic, major and
\* minor are globals of the notebook and keep their values.
HpAgain ==
    /\ pc \in {"hp_done", "hp_raised"}
    /\ calls < MaxParseCalls
    /\ calls' = calls + 1
    /\ at' \in 0..MaxOffset
    /\ pre' = heap
    /\ exc' = "none"
    /\ mv_head' = NoView
    /\ pc' = "hp_view"
    /\ UNCHANGED <<mmVars, lpVars, thVars, dlVars, layout, heap, mv, header,
                   magic, major, minor, log, bpVars, revVars>>

NextParse ==
    \/ HpView \/ HpUnpack \/ HpUnpackRaise \/ HpRelease \/ HpPrint \/ HpAgain

SpecParse == InitParse /\ [][NextParse]_vars

\* The same cell with other format strings in place of ">IHH": three-field
\* layouts of the codes B, H and I, and layouts with a code struct does not
\* know.
Formats ==
    {HeaderFormat, <<">", "B", "B", "H">>, <<">", "I", "Z", "H">>,
     <<">", "T", "H", "H">>, <<">", "I", "H", "n">>}

FormatHeaders == {ExampleHeader, HighHeader, <<1, 127>>, <<>>}

InitFormats ==
    /\ \E h \in FormatHeaders : heap = <<Bytearray(h)>>
    /\ header = 1
    /\ at \in 0..MaxOffset
    /\ layout \in Formats
    /\ pre = heap
    /\ pc = "hp_view"
    /\ calls = 1
    /\ exc = "none"
    /\ mv = NoView
    /\ mv_head = NoView
    /\ magic = None
    /\ major = None
    /\ minor = None
    /\ log = {}
    /\ BpIdle
    /\ RevIdle
    /\ DlIdle
    /\ ThIdle
    /\ LpIdle
    /\ MmIdle

SpecFormats == InitFormats /\ [][NextParse]_vars

(* ---------------------------- the notebook ---------------------------- *)
(* --------------------- downloads, one after another ------------------- *)
InitSync ==
    /\ pc = "sync_cell"
    /\ clock \in 0..MaxStart
    /\ trace = <<>>
    /\ start = None
    /\ end = None
    /\ file_id = None
    /\ LoopIdle
    /\ heap = <<>>
    /\ pre = <<>>
    /\ calls = 0
    /\ exc = "none"
    /\ mv = NoView
    /\ BpIdle
    /\ RevIdle
    /\ HpIdle
    /\ ThIdle
    /\ LpIdle
    /\ MmIdle

otherVars == <<heap, pre, calls, exc, mv, bpVars, revVars, hpVars>>

\* start = time.time()
SyncStartTime ==
    /\ pc = "sync_cell"
    /\ start' = clock
    /\ pc' = "sync_main"
    /\ UNCHANGED <<mmVars, lpVars, thVars, trace, clock, end, file_id,
                   loopVars, otherVars>>

\* main_sync(): for i in range(3), the first round
SyncMain ==
    /\ pc = "sync_main"
    /\ file_id' = 0
    /\ pc' = "sync_start"
    /\ UNCHANGED <<mmVars, lpVars, thVars, trace, clock, start, end, loopVars,
                   otherVars>>

\* download_file(i): print(f"Start downloading {file_id}")
SyncPrintStart ==
    /\ pc = "sync_start"
    /\ trace' = Append(trace, Event("Start", file_id))
    /\ pc' = "sync_sleep"
    /\ UNCHANGED <<mmVars, lpVars, thVars, clock, start, end, file_id,
                   loopVars, otherVars>>

\* A faulty variant of SyncSleep (sensitivity of C18): the download goes on
\* in the background and the loop moves to the next file at once.
SyncSleepDetached ==
    /\ pc = "sync_sleep"
    /\ clock' \in Later(clock)
    /\ pc' = "sync_for"
    /\ UNCHANGED <<mmVars, lpVars, thVars, trace, start, end, file_id,
                   loopVars, otherVars>>

\* time.sleep(1): the call returns when a second or more has passed
SyncSleep ==
    /\ pc = "sync_sleep"
    /\ clock' \in Later(clock + Delay)
    /\ pc' = "sync_finished"
    /\ UNCHANGED <<mmVars, lpVars, thVars, trace, start, end, file_id,
                   loopVars, otherVars>>

\* print(f"Finished downloading {file_id}"), and download_file returns
SyncPrintFinished ==
    /\ pc = "sync_finished"
    /\ trace' = Append(trace, Event("Finished", file_id))
    /\ pc' = "sync_for"
    /\ UNCHANGED <<mmVars, lpVars, thVars, clock, start, end, file_id,
                   loopVars, otherVars>>

\* for i in range(3): the next round
SyncFor ==
    /\ pc = "sync_for"
    /\ file_id + 1 < NumDownloads
    /\ file_id' = file_id + 1
    /\ pc' = "sync_start"
    /\ UNCHANGED <<mmVars, lpVars, thVars, trace, clock, start, end, loopVars,
                   otherVars>>

\* the range is used up: main_sync returns
SyncReturn ==
    /\ pc = "sync_for"
    /\ file_id + 1 >= NumDownloads
    /\ pc' = "sync_returned"
    /\ UNCHANGED <<mmVars, lpVars, thVars, trace, clock, start, end, file_id,
                   loopVars, otherVars>>

\* end = time.time(), and the total is printed
SyncEndTime ==
    /\ pc = "sync_returned"
    /\ end' \in Later(clock)
    /\ clock' = end'
    /\ pc' = "sync_done"
    /\ UNCHANGED <<mmVars, lpVars, thVars, trace, start, file_id, loopVars,
                   otherVars>>

NextSync ==
    \/ SyncStartTime \/ SyncMain \/ SyncPrintStart \/ SyncSleep
    \/ SyncPrintFinished \/ SyncFor \/ SyncReturn \/ SyncEndTime

SpecSync == InitSync /\ [][NextSync]_vars

(* ------------------------ downloads, concurrently --------------------- *)
\* A callback of the event loop: the first step of a task, the wakeup of a
\* task whose awaited future is done, the timer of a sleep, gather's
\* callback for a finished child, run_until_complete's callback that stops
\* the loop. Task NumDownloads is main_async's; the others are downloads.
Handle(kind, id) == [kind |-> kind, id |-> id, when |-> None]

Timer(when, id) == [kind |-> "timer", id |-> id, when |-> when]

MainTask == NumDownloads

\* TimerHandle.__lt__
Lt(a, b) == a.when < b.when

Swap(h, p, q) == [h EXCEPT ![p] = h[q], ![q] = h[p]]

RECURSIVE siftdown(_, _, _)
\* heapq._siftdown: the item at pos moves up while it is less than its parent
siftdown(h, startpos, pos) ==
    IF pos > startpos /\ Lt(h[pos], h[pos \div 2])
    THEN siftdown(Swap(h, pos, pos \div 2), startpos, pos \div 2)
    ELSE h

RECURSIVE siftup(_, _, _)
\* heapq._siftup: the item at pos goes down to a leaf along the smaller
\* children (the right one unless the left one is less), then sifts down
siftup(h, startpos, pos) ==
    IF 2 * pos <= Len(h)
    THEN LET childpos ==
                 IF 2 * pos + 1 <= Len(h) /\ ~Lt(h[2 * pos], h[2 * pos + 1])
                 THEN 2 * pos + 1 ELSE 2 * pos
         IN siftup(Swap(h, pos, childpos), startpos, childpos)
    ELSE siftdown(h, startpos, pos)

\* heapq.heappush(h, item)
heappush(h, item) == siftdown(Append(h, item), 1, Len(h) + 1)

\* heapq.heappop(h): h[1] is returned, and this is the heap that is left
heappop(h) ==
    IF Len(h) = 1 THEN <<>>
    ELSE siftup([SubSeq(h, 1, Len(h) - 1) EXCEPT ![1] = h[Len(h)]], 1, 1)

RECURSIVE Due(_, _)
\* _run_once: the timers whose time has come, in the order they are popped
Due(h, now) ==
    IF h = <<>> \/ h[1].when > now THEN <<>>
    ELSE <<h[1]>> \o Due(heappop(h), now)

RECURSIVE NotDue(_, _)
\* the heap those pops leave
NotDue(h, now) ==
    IF h = <<>> \/ h[1].when > now THEN h ELSE NotDue(heappop(h), now)

InitAsync ==
    /\ pc = "async_cell"
    /\ clock \in 0..MaxStart
    /\ trace = <<>>
    /\ start = None
    /\ end = None
    /\ file_id = None
    /\ LoopIdle
    /\ heap = <<>>
    /\ pre = <<>>
    /\ calls = 0
    /\ exc = "none"
    /\ mv = NoView
    /\ BpIdle
    /\ RevIdle
    /\ HpIdle
    /\ ThIdle
    /\ LpIdle
    /\ MmIdle

\* start = time.time()
AsyncStartTime ==
    /\ pc = "async_cell"
    /\ start' = clock
    /\ pc' = "async_run"
    /\ UNCHANGED <<mmVars, lpVars, thVars, trace, clock, end, file_id,
                   loopVars, otherVars>>

\* asyncio.run(main_async()): main_async's task is created and its first
\* step is queued; the loop starts
AsyncRun ==
    /\ pc = "async_run"
    /\ main' = "created"
    /\ ready' = <<Handle("step", MainTask)>>
    /\ pc' = "loop_select"
    /\ UNCHANGED <<mmVars, lpVars, thVars, trace, clock, start, end, file_id,
                   scheduled, coro, nfinished, ntodo, stopping, otherVars>>

\* _run_once: the loop waits until the first timer is due, or not at all
\* when a callback is ready
LoopSelect ==
    /\ pc = "loop_select"
    /\ ready # <<>> \/ scheduled # <<>>
    /\ clock' \in Later(IF ready = <<>> /\ scheduled[1].when > clock
                        THEN scheduled[1].when ELSE clock)
    /\ pc' = "loop_timers"
    /\ UNCHANGED <<mmVars, lpVars, thVars, trace, start, end, file_id,
                   loopVars, otherVars>>

\* _run_once: the timers that are due move to the ready queue, and the
\* callbacks ready now are the ones this turn runs
LoopTimers ==
    /\ pc = "loop_timers"
    /\ ready' = ready \o Due(scheduled, clock)
    /\ scheduled' = NotDue(scheduled, clock)
    /\ ntodo' = Len(ready')
    /\ pc' = "loop_run"
    /\ UNCHANGED <<mmVars, lpVars, thVars, trace, clock, start, end, file_id,
                   coro, main, nfinished, stopping, otherVars>>

\* The callback the loop runs next.
Running(kind) ==
    /\ pc = "loop_run"
    /\ ntodo > 0
    /\ Head(ready).kind = kind
    /\ ntodo' = ntodo - 1
    /\ pc' = pc

\* The downloads in the order gather is given them.
Downloads == [k \in 1..NumDownloads |-> k - 1]

\* A faulty variant of main_async (sensitivity of C17): the coroutines are
\* handed to gather last first.
MainStepReversed ==
    /\ Running("step")
    /\ Head(ready).id = MainTask
    /\ coro' = [f \in 0..(NumDownloads - 1) |-> "created"]
    /\ nfinished' = 0
    /\ ready' = Tail(ready) \o
                   [k \in 1..NumDownloads |->
                       Handle("step", Downloads[NumDownloads + 1 - k])]
    /\ main' = "gathering"
    /\ UNCHANGED <<mmVars, lpVars, thVars, trace, clock, start, end, file_id,
                   scheduled, stopping, otherVars>>

\* main_async up to its await: the three coroutines are made, gather wraps
\* each in a task whose first step is queued, and main_async waits
MainStep ==
    /\ Running("step")
    /\ Head(ready).id = MainTask
    /\ coro' = [f \in 0..(NumDownloads - 1) |-> "created"]
    /\ nfinished' = 0
    /\ ready' = Tail(ready) \o
                   [k \in 1..NumDownloads |-> Handle("step", Downloads[k])]
    /\ main' = "gathering"
    /\ UNCHANGED <<mmVars, lpVars, thVars, trace, clock, start, end, file_id,
                   scheduled, stopping, otherVars>>

\* A faulty variant of DownloadStart (sensitivity of C16): the coroutine
\* sleeps with time.sleep(1), which does not give the loop back.
DownloadStartBlocking ==
    /\ Running("step")
    /\ Head(ready).id # MainTask
    /\ LET f == Head(ready).id IN
          /\ trace' = trace \o <<Event("Start", f), Event("Finished", f)>>
          /\ clock' \in Later(clock + Delay)
          /\ coro' = [coro EXCEPT ![f] = "done"]
          /\ ready' = Append(Tail(ready), Handle("done_cb", f))
    /\ UNCHANGED <<mmVars, lpVars, thVars, start, end, file_id, scheduled,
                   main, nfinished, stopping, otherVars>>

\* download_file up to its await: Start is printed, asyncio.sleep(1) sets a
\* timer a second from now, and the coroutine waits
DownloadStart ==
    /\ Running("step")
    /\ Head(ready).id # MainTask
    /\ LET f == Head(ready).id IN
          /\ trace' = Append(trace, Event("Start", f))
          /\ clock' \in Later(clock)
          /\ scheduled' = heappush(scheduled, Timer(clock' + Delay, f))
          /\ coro' = [coro EXCEPT ![f] = "sleeping"]
    /\ ready' = Tail(ready)
    /\ UNCHANGED <<mmVars, lpVars, thVars, start, end, file_id, main,
                   nfinished, stopping, otherVars>>

\* the timer of a sleep: the sleep's future is done, the wakeup of the
\* task that awaits it is queued
TimerFires ==
    /\ Running("timer")
    /\ ready' = Append(Tail(ready), Handle("wakeup", Head(ready).id))
    /\ UNCHANGED <<mmVars, lpVars, thVars, trace, clock, start, end, file_id,
                   scheduled, coro, main, nfinished, stopping, otherVars>>

\* download_file after its await: Finished is printed and the coroutine
\* returns; gather's callback for the task is queued
DownloadFinish ==
    /\ Running("wakeup")
    /\ Head(ready).id # MainTask
    /\ LET f == Head(ready).id IN
          /\ trace' = Append(trace, Event("Finished", f))
          /\ coro' = [coro EXCEPT ![f] = "done"]
          /\ ready' = Append(Tail(ready), Handle("done_cb", f))
    /\ UNCHANGED <<mmVars, lpVars, thVars, clock, start, end, file_id,
                   scheduled, main, nfinished, stopping, otherVars>>

\* A faulty variant of GatherDone (sensitivity of C23): gather's future is
\* done as soon as the first child is.
GatherDoneFirst ==
    /\ Running("done_cb")
    /\ nfinished' = nfinished + 1
    /\ ready' = Tail(ready) \o
                   (IF nfinished' = 1
                    THEN <<Handle("wakeup", MainTask)>> ELSE <<>>)
    /\ UNCHANGED <<mmVars, lpVars, thVars, trace, clock, start, end, file_id,
                   scheduled, coro, main, stopping, otherVars>>

\* gather's callback: when the last child is done, gather's future is done
\* and main_async's wakeup is queued
GatherDone ==
    /\ Running("done_cb")
    /\ nfinished' = nfinished + 1
    /\ ready' = Tail(ready) \o
                   (IF nfinished' = NumDownloads
                    THEN <<Handle("wakeup", MainTask)>> ELSE <<>>)
    /\ UNCHANGED <<mmVars, lpVars, thVars, trace, clock, start, end, file_id,
                   scheduled, coro, main, stopping, otherVars>>

\* main_async after its await: it returns, and the callback that stops the
\* loop is queued
MainFinish ==
    /\ Running("wakeup")
    /\ Head(ready).id = MainTask
    /\ main' = "done"
    /\ ready' = Append(Tail(ready), Handle("stop", MainTask))
    /\ UNCHANGED <<mmVars, lpVars, thVars, trace, clock, start, end, file_id,
                   scheduled, coro, nfinished, stopping, otherVars>>

\* the callback of asyncio.run: loop.stop()
LoopStop ==
    /\ Running("stop")
    /\ stopping' = TRUE
    /\ ready' = Tail(ready)
    /\ UNCHANGED <<mmVars, lpVars, thVars, trace, clock, start, end, file_id,
                   scheduled, coro, main, nfinished, otherVars>>

\* the turn is over: the loop goes round again, or stops and asyncio.run
\* returns
LoopTurnEnd ==
    /\ pc = "loop_run"
    /\ ntodo = 0
    /\ pc' = IF stopping THEN "async_returned" ELSE "loop_select"
    /\ UNCHANGED <<mmVars, lpVars, thVars, trace, clock, start, end, file_id,
                   loopVars, otherVars>>

\* end = time.time(), and the total is printed
AsyncEndTime ==
    /\ pc = "async_returned"
    /\ end' \in Later(clock)
    /\ clock' = end'
    /\ pc' = "async_done"
    /\ UNCHANGED <<mmVars, lpVars, thVars, trace, start, file_id, loopVars,
                   otherVars>>

NextAsync ==
    \/ AsyncStartTime \/ AsyncRun \/ LoopSelect \/ LoopTimers \/ MainStep
    \/ DownloadStart \/ TimerFires \/ DownloadFinish \/ GatherDone
    \/ MainFinish \/ LoopStop \/ LoopTurnEnd \/ AsyncEndTime

SpecAsync == InitAsync /\ [][NextAsync]_vars

\* The interpreter and the event loop keep running: whatever step is
\* possible is taken in the end.
FairAsync == SpecAsync /\ WF_vars(NextAsync)

(* ------------------------- calls in several threads -------------------- *)
\* The interpreter runs one thread at a time and may hand over to another
\* thread between any two statements. The names of a function are local to
\* its call: pc, exc, mv and the names of build_packet below are the
\* running thread's, and frames holds them for the threads that wait.
\* struct.unpack_from is one call into C and runs without a hand-over.
Frame ==
    [pc |-> pc, exc |-> exc, mv |-> mv, parts |-> parts, parts0 |-> parts0,
     total_size |-> total_size, buf |-> buf, offset |-> offset, idx |-> idx,
     part_length |-> part_length, result |-> result, written |-> written,
     allocs |-> allocs, header |-> header, at |-> at, layout |-> layout,
     fields |-> fields]

\* The frame of a call that has not begun.
StartFrame(call) ==
    [pc |-> IF call.op = "build" THEN "bp_sum" ELSE "th_unpack",
     exc |-> "none", mv |-> NoView, parts |-> call.parts,
     parts0 |-> call.parts, total_size |-> None, buf |-> None,
     offset |-> None, idx |-> 0, part_length |-> None, result |-> None,
     written |-> <<>>, allocs |-> 0, header |-> call.header, at |-> call.at,
     layout |-> HeaderFormat, fields |-> [raised |-> "none", values |-> <<>>]]

\* What frames holds in the place of the running thread.
Parked == [StartFrame([op |-> "none", parts |-> <<>>, header |-> None,
                       at |-> None]) EXCEPT !.pc = "running"]

\* The frame f becomes the running thread's.
Resume(f) ==
    /\ pc' = f.pc /\ exc' = f.exc /\ mv' = f.mv /\ parts' = f.parts
    /\ parts0' = f.parts0 /\ total_size' = f.total_size /\ buf' = f.buf
    /\ offset' = f.offset /\ idx' = f.idx /\ part_length' = f.part_length
    /\ result' = f.result /\ written' = f.written /\ allocs' = f.allocs
    /\ header' = f.header /\ at' = f.at /\ layout' = f.layout
    /\ fields' = f.fields

\* The objects the threads' calls are given: a bytes, an 8-byte bytearray,
\* a view of two-byte items and an object whose length is negative. The
\* calls may share them.
SharedObjects ==
    <<Bytes(<<1, 255>>), Bytearray(HighHeader), ArrayH(<<1, 1>>), NegLen>>

BuildCall(ps) == [op |-> "build", parts |-> ps, header |-> None, at |-> None]

ParseCall(buffer, off) ==
    [op |-> "parse", parts |-> <<>>, header |-> buffer, at |-> off]

ThreadCalls ==
    {BuildCall(<<1, 2>>), BuildCall(<<2, 1>>), BuildCall(<<3>>),
     BuildCall(<<4>>),
     ParseCall(2, 0), ParseCall(1, 0)}

Threads == 1..NumThreads

Finished(p) == p \in {"bp_returned", "bp_raised", "th_done"}

InitThreads ==
    /\ heap = SharedObjects
    /\ pre = heap
    /\ calls = NumThreads
    /\ tid = 1
    /\ \E call \in [Threads -> ThreadCalls] :
          /\ frames = [t \in Threads |->
                          IF t = 1 THEN Parked ELSE StartFrame(call[t])]
          /\ LET f == StartFrame(call[1]) IN
                /\ pc = f.pc /\ exc = f.exc /\ mv = f.mv /\ parts = f.parts
                /\ parts0 = f.parts0 /\ total_size = f.total_size
                /\ buf = f.buf /\ offset = f.offset /\ idx = f.idx
                /\ part_length = f.part_length /\ result = f.result
                /\ written = f.written /\ allocs = f.allocs
                /\ header = f.header /\ at = f.at /\ layout = f.layout
                /\ fields = f.fields
    /\ touched = "none"
    /\ mv_head = NoView
    /\ magic = None /\ major = None /\ minor = None
    /\ log = {}
    /\ RevIdle
    /\ DlIdle
    /\ LpIdle
    /\ MmIdle

\* A faulty variant of Switch (sensitivity of C13): offset is a name of the
\* module that all the calls share, so a hand-over leaves it as it is.
SwitchSharingOffset(t) ==
    /\ tid # None
    /\ t # tid
    /\ ~Finished(frames[t].pc)
    /\ frames' = [frames EXCEPT ![tid] = Frame, ![t] = Parked]
    /\ Resume([frames[t] EXCEPT !.offset = offset])
    /\ tid' = t
    /\ UNCHANGED <<mmVars, lpVars, heap, pre, calls, touched, mv_head, magic,
                   major, minor, log, revVars, dlVars>>

\* The interpreter hands over to thread t, which has not finished.
Switch(t) ==
    /\ tid # None
    /\ t # tid
    /\ ~Finished(frames[t].pc)
    /\ frames' = [frames EXCEPT ![tid] = Frame, ![t] = Parked]
    /\ Resume(frames[t])
    /\ tid' = t
    /\ UNCHANGED <<mmVars, lpVars, heap, pre, calls, touched, mv_head, magic,
                   major, minor, log, revVars, dlVars>>

\* struct.unpack_from(">IHH", buffer, offset) in the running thread
ThUnpack ==
    /\ pc = "th_unpack"
    /\ fields' = unpack_from(layout, heap[header].data, at)
    /\ exc' = fields'.raised
    /\ pc' = "th_done"
    /\ UNCHANGED <<mmVars, lpVars, heap, pre, calls, mv, bpVars, revVars,
                   dlVars, header, mv_head, magic, major, minor, at, layout,
                   log, tid, frames>>

NextThreads ==
    \/ \E t \in Threads : Switch(t)
    \/ ThUnpack
    \/ BpSum \/ BpSumRaise \/ BpAlloc \/ BpView \/ BpOffset \/ BpFor \/ BpLen
    \/ BpCopy \/ BpCopyRaise \/ BpAdvance \/ BpRelease \/ BpReturn

SpecThreads == InitThreads /\ [][NextThreads]_vars

(* -------------------- the normal and the unrolled loop ----------------- *)
\* The arrays the cell gives the loops: x and y of one length, with items
\* that differ from index to index, and results of zeros of that length.
Ramp(n, a, b) == [j \in 1..n |-> a * (j - 1) + b]

Slopes == {1, 3}

InitLoops ==
    /\ \E n \in 0..MaxLoopLen, a \in Slopes, b \in Slopes :
          /\ x = Ramp(n, a, 0)
          /\ y = Ramp(n, b, 1)
          /\ result_normal = Zeros(n)
          /\ result_unrolled = Zeros(n)
          /\ writes = Zeros(n)
    /\ index = None
    /\ it = 0
    /\ pc = "nl_for"
    /\ exc = "none"
    /\ heap = <<>>
    /\ pre = <<>>
    /\ calls = 0
    /\ mv = NoView
    /\ BpIdle
    /\ RevIdle
    /\ HpIdle
    /\ DlIdle
    /\ ThIdle
    /\ MmIdle

restVars == <<heap, pre, calls, mv, bpVars, revVars, hpVars, dlVars, thVars>>

\* a[j] for an index j counted from 0 that the array has
InRange(a, j) == 0 <= j /\ j < Len(a)

\* normal_loop: for i in range(len(x))
NlFor ==
    /\ pc = "nl_for"
    /\ IF it < Len(x)
          THEN index' = it /\ it' = it + 1 /\ pc' = "nl_body"
          ELSE index' = index /\ it' = 0 /\ pc' = "ul_for"
    /\ UNCHANGED <<mmVars, x, y, result_normal, result_unrolled, writes, exc,
                   restVars>>

\* out[i] = x[i] + y[i]
NlBody ==
    /\ pc = "nl_body"
    /\ InRange(result_normal, index)
    /\ result_normal' =
          [result_normal EXCEPT ![index + 1] = x[index + 1] + y[index + 1]]
    /\ pc' = "nl_for"
    /\ UNCHANGED <<mmVars, x, y, result_unrolled, index, it, writes, exc,
                   restVars>>

\* A faulty variant of UlFor (sensitivity of C22): the main loop runs to
\* len(x), so its last round reaches past the end of a short tail.
UlForToEnd ==
    /\ pc = "ul_for"
    /\ IF it < Len(x)
          THEN index' = it /\ it' = it + 4 /\ pc' = "ul_body0"
          ELSE index' = index /\ it' = Len(x) - (Len(x) % 4)
               /\ pc' = "ul_rest_for"
    /\ UNCHANGED <<mmVars, x, y, result_normal, result_unrolled, writes, exc,
                   restVars>>

\* unrolled_loop: for i in range(0, len(x) - 3, 4); when the range is used
\* up the second loop's range(len(x) - (len(x) % 4), len(x)) begins
UlFor ==
    /\ pc = "ul_for"
    /\ IF it < Len(x) - 3
          THEN index' = it /\ it' = it + 4 /\ pc' = "ul_body0"
          ELSE index' = index /\ it' = Len(x) - (Len(x) % 4)
               /\ pc' = "ul_rest_for"
    /\ UNCHANGED <<mmVars, x, y, result_normal, result_unrolled, writes, exc,
                   restVars>>

\* out[j] = x[j] + y[j] in unrolled_loop, or IndexError when the arrays
\* have no index j
UlStore(j, next) ==
    /\ IF InRange(result_unrolled, j)
          THEN /\ result_unrolled' =
                     [result_unrolled EXCEPT ![j + 1] = x[j + 1] + y[j + 1]]
               /\ writes' = [writes EXCEPT ![j + 1] = @ + 1]
               /\ pc' = next
               /\ exc' = exc
          ELSE /\ exc' = "IndexError"
               /\ pc' = "lp_raised"
               /\ UNCHANGED <<mmVars, result_unrolled, writes>>
    /\ UNCHANGED <<mmVars, x, y, result_normal, index, it, restVars>>

\* out[i] = x[i] + y[i]
UlBody0 == pc = "ul_body0" /\ UlStore(index, "ul_body1")

\* out[i + 1] = x[i + 1] + y[i + 1]
UlBody1 == pc = "ul_body1" /\ UlStore(index + 1, "ul_body2")

\* out[i + 2] = x[i + 2] + y[i + 2]
UlBody2 == pc = "ul_body2" /\ UlStore(index + 2, "ul_body3")

\* out[i + 3] = x[i + 3] + y[i + 3]
UlBody3 == pc = "ul_body3" /\ UlStore(index + 3, "ul_for")

\* for i in range(len(x) - (len(x) % 4), len(x))
UlRestFor ==
    /\ pc = "ul_rest_for"
    /\ IF it < Len(x)
          THEN index' = it /\ it' = it + 1 /\ pc' = "ul_rest_body"
          ELSE index' = index /\ it' = it /\ pc' = "lp_done"
    /\ UNCHANGED <<mmVars, x, y, result_normal, result_unrolled, writes, exc,
                   restVars>>

\* out[i] = x[i] + y[i]
UlRestBody == pc = "ul_rest_body" /\ UlStore(index, "ul_rest_for")

NextLoops ==
    \/ NlFor \/ NlBody \/ UlFor \/ UlBody0 \/ UlBody1 \/ UlBody2 \/ UlBody3
    \/ UlRestFor \/ UlRestBody

SpecLoops == InitLoops /\ [][NextLoops]_vars

(* ------------------------- mmap edit without copy ---------------------- *)
\* b"abcdefghij"
SampleData == SubSeq(Alphabet, 1, 10)

\* b"ZZZZ"
ZZZZ == <<90, 90, 90, 90>>

InitMmap ==
    /\ pc = "mm_tmp"
    /\ MmIdle
    /\ heap = <<>>
    /\ pre = <<>>
    /\ calls = 0
    /\ exc = "none"
    /\ mv = NoView
    /\ BpIdle
    /\ RevIdle
    /\ HpIdle
    /\ DlIdle
    /\ ThIdle
    /\ LpIdle

mmRest ==
    <<heap, pre, calls, mv, bpVars, revVars, hpVars, dlVars, thVars, lpVars>>

\* tmp = tempfile.TemporaryFile()
MmTmp ==
    /\ pc = "mm_tmp"
    /\ tmp' = [data |-> <<>>, closed |-> FALSE]
    /\ pc' = "mm_write"
    /\ UNCHANGED <<mm, mv_map, exc, mmRest>>

\* tmp.write(b"abcdefghij"); tmp.flush()
MmWrite ==
    /\ pc = "mm_write"
    /\ tmp' = [tmp EXCEPT !.data = @ \o SampleData]
    /\ pc' = "mm_map"
    /\ UNCHANGED <<mm, mv_map, exc, mmRest>>

\* mm = mmap.mmap(tmp.fileno(), 0, access=mmap.ACCESS_WRITE): the whole
\* file, shared with the mapping
MmMap ==
    /\ pc = "mm_map"
    /\ mm' = [exports |-> 0, closed |-> FALSE]
    /\ pc' = "mm_view"
    /\ UNCHANGED <<tmp, mv_map, exc, mmRest>>

\* mv_map = memoryview(mm): the mapping has one export more
MmView ==
    /\ pc = "mm_view"
    /\ mv_map' = [obj |-> 1, released |-> FALSE]
    /\ mm' = [mm EXCEPT !.exports = @ + 1]
    /\ pc' = "mm_edit"
    /\ UNCHANGED <<tmp, exc, mmRest>>

\* mv_map[0:4] = b"ZZZZ": written through to the file
MmEdit ==
    /\ pc = "mm_edit"
    /\ IF SliceFits(tmp.data, 0, 4, Bytes(ZZZZ))
          THEN /\ tmp' = [tmp EXCEPT !.data = SliceAssign(@, 0, 4, Bytes(ZZZZ))]
               /\ pc' = "mm_print"
               /\ exc' = exc
          ELSE /\ exc' = "ValueError"
               /\ pc' = "mm_raised"
               /\ tmp' = tmp
    /\ UNCHANGED <<mm, mv_map, mmRest>>

\* print("After mmap edit  :", mm[:10])
MmPrint ==
    /\ pc = "mm_print"
    /\ pc' = "mm_release"
    /\ UNCHANGED <<tmp, mm, mv_map, exc, mmRest>>

\* mv_map.release(): the mapping has one export less
MmRelease ==
    /\ pc = "mm_release"
    /\ mv_map' = [mv_map EXCEPT !.released = TRUE]
    /\ mm' = [mm EXCEPT !.exports = @ - 1]
    /\ pc' = "mm_close"
    /\ UNCHANGED <<tmp, exc, mmRest>>

\* mm.close(): BufferError while a view of the mapping is not released
MmClose ==
    /\ pc = "mm_close"
    /\ IF mm.exports = 0
          THEN mm' = [mm EXCEPT !.closed = TRUE] /\ pc' = "mm_tmp_close"
               /\ exc' = exc
          ELSE mm' = mm /\ pc' = "mm_raised" /\ exc' = "BufferError"
    /\ UNCHANGED <<tmp, mv_map, mmRest>>

\* tmp.close()
MmTmpClose ==
    /\ pc = "mm_tmp_close"
    /\ tmp' = [tmp EXCEPT !.closed = TRUE]
    /\ pc' = "mm_done"
    /\ UNCHANGED <<mm, mv_map, exc, mmRest>>

NextMmap ==
    \/ MmTmp \/ MmWrite \/ MmMap \/ MmView \/ MmEdit \/ MmPrint \/ MmRelease
    \/ MmClose \/ MmTmpClose

Init == InitReverse \/ InitParse \/ InitBuild \/ InitMmap

Next == NextReverse \/ NextParse \/ NextBuild \/ NextMmap

Spec == Init /\ [][Next]_vars

(* ------------------------------ claims -------------------------------- *)
\* The sources of the call, as they were when it began.
Source(k) == pre[parts0[k]].data

AllByteSources ==
    \A k \in 1..Len(parts0) : pre[parts0[k]].kind \in {"bytes", "bytearray"}

RECURSIVE Concatenation(_)
\* The bytes of the first n sources, one after the other.
Concatenation(n) == IF n = 0 THEN <<>> ELSE Concatenation(n - 1) \o Source(n)

RECURSIVE TotalLen(_)
TotalLen(n) == IF n = 0 THEN 0 ELSE TotalLen(n - 1) + Len(Source(n))

Packet == heap[result].data

\* C1: when build_packet returns, the packet read front to back is the bytes
\* of the sources concatenated in input order, and cutting it at the sources'
\* lengths gives each source back; a list of byte sources always returns.
C1_PacketIsConcatenation ==
    /\ pc = "bp_returned" =>
          /\ Packet = Concatenation(Len(parts0))
          /\ \A k \in 1..Len(parts0) :
                SubSeq(Packet, TotalLen(k - 1) + 1, TotalLen(k)) = Source(k)
    /\ pc = "bp_raised" => ~AllByteSources

C1_Witness ==
    /\ pc = "bp_returned"
    /\ Len(parts0) = 3
    /\ Source(1) = HEAD /\ Source(2) = DATA /\ Source(3) = TAIL
    /\ Packet = <<72, 69, 65, 68, 68, 65, 84, 65, 84, 65, 73, 76>>

\* C2: the length of the packet build_packet returns is the sum of the
\* lengths of its sources; the empty list returns a packet of length 0.
C2_PacketLength ==
    /\ pc = "bp_returned" => Len(Packet) = TotalLen(Len(parts0))
    /\ (parts0 = <<>> /\ pc \in {"bp_returned", "bp_raised"}) =>
          (pc = "bp_returned" /\ Len(Packet) = 0)

C2_Witness ==
    /\ pc = "bp_returned"
    /\ Len(parts0) = 2
    /\ Len(Source(1)) = 1 /\ Len(Source(2)) = 2
    /\ Len(Packet) = 3

Before == pre[data].data

After == heap[data].data

\* C3: when reverse_inplace returns, the buffer has the length it had and
\* the byte at each index i is the one that was at index n-1-i; on a mutable
\* buffer the call always returns.
C3_Reversed ==
    /\ pc = "rev_returned" =>
          /\ Len(After) = Len(Before)
          /\ \A i \in 1..Len(After) : After[i] = Before[Len(Before) + 1 - i]
    /\ pc = "rev_raised" => readonly(pre[data])

C3_Witness ==
    /\ pc = "rev_returned"
    /\ calls = 1
    /\ Before = Alphabet
    /\ SubSeq(After, 1, 10) = <<122, 121, 120, 119, 118, 117, 116, 115, 114, 113>>

HeaderBytes == heap[header].data

\* C4: the header parse gives exactly one value for each of the three
\* fields, each the unsigned big-endian integer of the field's bytes taken
\* consecutively from the offset: 4 bytes of magic, 2 of major, 2 of minor.
C4_BigEndianFields ==
    /\ \A e \in log : e.outcome.raised = "none" => Len(e.outcome.values) = 3
    /\ pc \in {"hp_release", "hp_print", "hp_done"} =>
          /\ magic = HeaderBytes[at + 1] * 16777216 + HeaderBytes[at + 2] * 65536
                       + HeaderBytes[at + 3] * 256 + HeaderBytes[at + 4]
          /\ major = HeaderBytes[at + 5] * 256 + HeaderBytes[at + 6]
          /\ minor = HeaderBytes[at + 7] * 256 + HeaderBytes[at + 8]

C4_Witness ==
    /\ pc = "hp_done"
    /\ at = 0
    /\ SubSeq(HeaderBytes, 1, 8) = <<0, 0, 0, 1, 0, 2, 0, 3>>
    /\ magic = 1 /\ major = 2 /\ minor = 3

\* C5: the header parse fails (struct.error, the out-of-bounds error) exactly
\* when the offset plus the widths of the fields, 4 + 2 + 2, exceeds the
\* length of the buffer.
C5_OutOfBoundsExactly ==
    \A e \in log :
        /\ e.outcome.raised \in {"none", "struct.error"}
        /\ (e.outcome.raised = "struct.error") <=> (e.offset + 4 + 2 + 2 > Len(e.buffer))

C5_Witness ==
    \E e1, e2 \in log :
        /\ e1.offset + 8 = Len(e1.buffer) /\ e1.outcome.raised = "none"
        /\ e2.offset + 8 = Len(e2.buffer) + 1 /\ e2.outcome.raised = "struct.error"

\* C6: after an even number of calls of reverse_inplace on the same buffer
\* the buffer holds its original content, and one call on a buffer of
\* length 0 or 1 leaves it as it was.
C6_Involution ==
    /\ (pc = "rev_returned" /\ calls % 2 = 0) => After = orig[data].data
    /\ (pc = "rev_returned" /\ Len(Before) <= 1) => After = Before

C6_Witness ==
    /\ pc = "rev_returned"
    /\ calls = 2
    /\ Len(After) >= 3
    /\ Before # After
    /\ After = orig[data].data

\* C7: after build_packet, however it ended, every source has the bytes and
\* the length it had before the call and the list has the same elements in
\* the same order.
C7_SourcesUntouched ==
    pc \in {"bp_returned", "bp_raised"} =>
        /\ parts = parts0
        /\ \A r \in 1..Len(pre) : heap[r] = pre[r]

C7_Witness ==
    /\ pc = "bp_returned"
    /\ Len(parts) = 2
    /\ heap[parts[1]].kind = "bytearray"
    /\ heap[parts[1]].data = <<1, 255>>
    /\ Packet # <<>>

\* C8: the returned packet aliases no source: a write of the caller through
\* a source leaves the packet as it was, and a write through the packet
\* leaves every source as it was.
C8_NoAliasing ==
    [][(pc = "bp_returned" /\ pc' = "bp_mutated") =>
          /\ touched' = "part" => heap'[result] = heap[result]
          /\ touched' = "result" =>
                \A k \in 1..Len(parts) : heap'[parts[k]] = heap[parts[k]]]_vars

C8_Witness ==
    /\ pc = "bp_mutated"
    /\ touched = "part"
    /\ Len(parts) = 1
    /\ heap[parts[1]].data = <<170, 255>>
    /\ Packet = <<1, 255>>

\* C9: a call that fails has changed nothing the caller can see: the buffer
\* and the sources are as they were when the call began, and build_packet
\* has handed no packet back.
C9_FailsBeforeMutating ==
    /\ pc = "bp_raised" =>
          /\ result = None
          /\ parts = parts0
          /\ \A r \in 1..Len(pre) : heap[r] = pre[r]
    /\ pc = "rev_raised" => heap = pre
    /\ pc = "hp_raised" => heap = pre

C9_Witness ==
    /\ pc = "bp_raised"
    /\ idx = 2
    /\ heap[buf].data = <<255, 0>>
    /\ result = None

C11_ParseLeavesBuffer ==
    pc \in {"hp_view", "hp_unpack", "hp_release", "hp_print", "hp_done", "hp_raised"} =>
        /\ Len(heap[header].data) = Len(pre[header].data)
        /\ \A i \in 1..Len(pre[header].data) : heap[header].data[i] = pre[header].data[i]

C11_Witness ==
    /\ pc = "hp_done"
    /\ mv_head.released
    /\ magic = 1 /\ major = 2 /\ minor = 3
    /\ heap[header].data = ExampleHeader

\* C12: build_packet allocates its buffer once, with exactly total_size
\* bytes, and never replaces or resizes it; no byte of it is copied into more
\* than once, and when the walk over the parts has ended every byte has been
\* copied into exactly once.
C12_OneCopyPerByte ==
    /\ pc \in {"bp_sum", "bp_alloc"} => allocs = 0
    /\ (pc = "bp_raised" /\ buf = None) => allocs = 0
    /\ (pc \in {"bp_view", "bp_offset", "bp_for", "bp_len", "bp_copy", "bp_advance",
                "bp_release", "bp_return", "bp_returned", "bp_raised"}
          /\ buf # None) =>
          /\ allocs = 1
          /\ buf = Len(pre) + 1
          /\ Len(heap) = Len(pre) + 1
          /\ Len(heap[buf].data) = total_size
          /\ Len(written) = total_size
          /\ \A i \in 1..total_size : written[i] <= 1
    /\ pc \in {"bp_release", "bp_return", "bp_returned"} =>
          \A i \in 1..total_size : written[i] = 1

C12_Witness ==
    /\ pc = "bp_returned"
    /\ Len(parts0) = 3
    /\ allocs = 1
    /\ written = [i \in 1..12 |-> 1]

HasIllDefinedLength ==
    \E k \in 1..Len(parts0) : pre[parts0[k]].kind \in {"neg_len", "no_len"}

\* C14: when a source's length is negative or not defined, build_packet
\* fails: the sum of the lengths raises (ValueError or TypeError, the invalid
\* input errors), before anything is allocated, and nothing is returned.
C14_IllDefinedLengthFails ==
    (HasIllDefinedLength /\ pc # "bp_sum") =>
        /\ pc = "bp_raised"
        /\ exc \in {"ValueError", "TypeError"}
        /\ allocs = 0
        /\ result = None

C14_Witness ==
    /\ pc = "bp_raised"
    /\ Len(parts0) = 2
    /\ pre[parts0[1]].kind = "bytes"
    /\ pre[parts0[2]].kind = "neg_len"
    /\ exc = "ValueError"
    /\ allocs = 0

\* C19: at every boundary of the copy loop, with the first idx parts done,
\* the write offset is the sum of their lengths and is at most total_size,
\* the bytes before the offset are their concatenation and the bytes from
\* the offset on are still the zero fill; when the loop has ended the offset
\* is total_size.
C19_CopyLoopInvariant ==
    /\ pc = "bp_for" =>
          /\ offset = TotalLen(idx)
          /\ offset <= total_size
          /\ SubSeq(heap[buf].data, 1, offset) = Concatenation(idx)
          /\ \A i \in (offset + 1)..total_size : heap[buf].data[i] = 0
    /\ pc \in {"bp_release", "bp_return", "bp_returned"} =>
          (idx = Len(parts0) /\ offset = total_size)

C19_Witness ==
    /\ pc = "bp_for"
    /\ idx = 1
    /\ Len(parts0) = 3
    /\ offset = 4
    /\ heap[buf].data = HEAD \o <<0, 0, 0, 0, 0, 0, 0, 0>>

\* C20: reverse_inplace terminates. Its cursors start at 0 and n-1 and move
\* one step inward with each swap, a swap is made only with
\* 0 <= left < right <= n-1, the loop is left as soon as left >= right, and
\* a call that returns has made exactly floor(n/2) swaps.
C20_CursorsAndSwaps ==
    LET n == Len(pre[data].data) IN
    /\ pc \in {"rev_while", "rev_swap"} => (left = swaps /\ right = n - 1 - swaps)
    /\ pc = "rev_swap" => (0 <= left /\ left < right /\ right <= n - 1)
    /\ pc = "rev_release" =>
          (left >= right /\ (swaps > 0 => left - 1 < right + 1))
    /\ pc \in {"rev_release", "rev_returned"} => swaps = n \div 2

C20_ReverseTerminates ==
    /\ [](pc \in {"rev_view", "rev_init", "rev_while", "rev_swap", "rev_left",
                  "rev_right", "rev_release", "rev_returned", "rev_raised"}
            => C20_CursorsAndSwaps)
    /\ (pc = "rev_view" ~> pc \in {"rev_returned", "rev_raised"})

C20_Witness ==
    /\ pc = "rev_returned"
    /\ Len(heap[data].data) = 26
    /\ swaps = 13
    /\ left = 13 /\ right = 12


\* C15: a parse whose layout names a field width or encoding the parser does
\* not support (here: any code other than the 1-, 2- and 4-byte unsigned
\* integers B, H, I) fails with struct's format error, whatever the buffer
\* holds, and binds no field; a layout of supported codes never fails so.
C15_UnsupportedLayoutFails ==
    LET unsupported == \E i \in 2..Len(layout) : layout[i] \notin {"B", "H", "I"} IN
    /\ \A e \in log : (e.outcome.raised = BadChar) <=> unsupported
    /\ (unsupported /\ pc \notin {"hp_view", "hp_unpack"}) =>
          /\ pc = "hp_raised"
          /\ exc = BadChar
          /\ magic = None /\ major = None /\ minor = None

C15_Witness ==
    /\ pc = "hp_raised"
    /\ layout = <<">", "I", "Z", "H">>
    /\ exc = BadChar
    /\ heap[header].data = ExampleHeader
    /\ at = 0

\* The downloads that have printed Start and not yet Finished.
InProgress ==
    {f \in 0..(NumDownloads - 1) :
        /\ \E k \in 1..Len(trace) : trace[k] = Event("Start", f)
        /\ ~\E k \in 1..Len(trace) : trace[k] = Event("Finished", f)}

\* Start 0, Finished 0, Start 1, Finished 1, Start 2, Finished 2
OneAfterAnother ==
    [k \in 1..(2 * NumDownloads) |->
        IF k % 2 = 1 THEN Event("Start", (k - 1) \div 2)
        ELSE Event("Finished", (k - 2) \div 2)]

\* C18: in the synchronous cell the output is, at every moment, a prefix of
\* Start 0, Finished 0, Start 1, Finished 1, Start 2, Finished 2: download
\* i + 1 starts only after download i has finished, at most one download is
\* in progress, and when main_sync has returned the whole trace is there.
C18_SyncOneAtATime ==
    /\ Len(trace) <= Len(OneAfterAnother)
    /\ trace = SubSeq(OneAfterAnother, 1, Len(trace))
    /\ Cardinality(InProgress) <= 1
    /\ pc \in {"sync_returned", "sync_done"} => trace = OneAfterAnother

C18_Witness ==
    /\ pc = "sync_done"
    /\ trace = <<Event("Start", 0), Event("Finished", 0), Event("Start", 1),
                 Event("Finished", 1), Event("Start", 2), Event("Finished", 2)>>
    /\ end - start >= NumDownloads * Delay

\* The places of the trace where a line of this kind stands.
Places(event) == {k \in 1..Len(trace) : trace[k].event = event}

\* C16: in the asynchronous cell no Finished line is printed before a Start
\* line: every Start stands before every Finished, and once a Finished line
\* is there all three Start lines are.
C16_AllStartBeforeFinished ==
    /\ \A s \in Places("Start") : \A f \in Places("Finished") : s < f
    /\ Places("Finished") # {} => Cardinality(Places("Start")) = NumDownloads

C16_Witness ==
    /\ pc = "loop_run"
    /\ Cardinality(Places("Start")) = NumDownloads
    /\ Cardinality(Places("Finished")) = 1
    /\ \E t \in 1..Len(scheduled) : scheduled[t].when > clock

\* Start 0, Start 1, Start 2, Finished 0, Finished 1, Finished 2
AllAtOnce ==
    [k \in 1..(2 * NumDownloads) |->
        IF k <= NumDownloads THEN Event("Start", k - 1)
        ELSE Event("Finished", k - NumDownloads - 1)]

\* C17: in the asynchronous cell the output is, at every moment, a prefix
\* of Start 0, Start 1, Start 2, Finished 0, Finished 1, Finished 2, and it
\* is the whole of it when main_async has returned.
C17_AsyncTraceInOrder ==
    /\ Len(trace) <= Len(AllAtOnce)
    /\ trace = SubSeq(AllAtOnce, 1, Len(trace))
    /\ (main = "done" \/ pc \in {"async_returned", "async_done"}) =>
          trace = AllAtOnce

C17_Witness ==
    /\ pc = "async_done"
    /\ trace = <<Event("Start", 0), Event("Start", 1), Event("Start", 2),
                 Event("Finished", 0), Event("Finished", 1),
                 Event("Finished", 2)>>
    /\ end - start > Delay

RECURSIVE CopyAlone(_, _, _, _, _)
\* build_packet's loop run from part k on, with nothing else running.
CopyAlone(h, ps, k, d, off) ==
    IF k > Len(ps) THEN Returned(d)
    ELSE IF SliceFits(d, off, off + len(h[ps[k]]), h[ps[k]])
         THEN CopyAlone(h, ps, k + 1,
                        SliceAssign(d, off, off + len(h[ps[k]]), h[ps[k]]),
                        off + len(h[ps[k]]))
         ELSE Raised("ValueError")

\* What the call of frame f gives when it runs alone on the heap h.
Alone(h, f) ==
    IF f.pc = "th_done" THEN unpack_from(f.layout, h[f.header].data, f.at)
    ELSE IF SumError(h, f.parts0) # "none" THEN Raised(SumError(h, f.parts0))
    ELSE CopyAlone(h, f.parts0, 1, Zeros(SumLen(h, f.parts0)), 0)

\* The frame of thread t, running or not.
FrameOf(t) == IF t = tid THEN Frame ELSE frames[t]

\* What the finished call of frame f gave.
Outcome(f) ==
    IF f.pc = "bp_returned" THEN Returned(heap[f.result].data)
    ELSE IF f.pc = "bp_raised" THEN Raised(f.exc)
    ELSE f.fields

Count(d, v) == Cardinality({i \in 1..Len(d) : d[i] = v})

\* d holds the bytes of Before, each as often as Before does.
PermutationOfBefore(d) ==
    /\ Len(d) = Len(Before)
    /\ \A i \in 1..Len(d) : Count(d, d[i]) = Count(Before, d[i])

\* The items at the indices lo..hi (counted from 0) are the ones the call
\* began with; the items outside are where the reversal puts them.
ReversedOutside(lo, hi) ==
    \A i \in 0..(Len(Before) - 1) :
        After[i + 1] = IF lo <= i /\ i <= hi THEN Before[i + 1]
                       ELSE Before[Len(Before) - i]

\* C21: all through reverse_inplace the buffer is a permutation of what it
\* was when the call began. At the head of the loop and before the swap,
\* left + right = n - 1, the items outside [left, right] are in their final
\* reversed places and the items inside are where they were; after the swap
\* the same holds with the two swapped items counted as outside.
C21_ReverseLoopInvariant ==
    /\ pc \in {"rev_view", "rev_init", "rev_while", "rev_swap", "rev_left",
                "rev_right", "rev_release", "rev_returned", "rev_raised"}
          => PermutationOfBefore(After)
    /\ pc \in {"rev_while", "rev_swap", "rev_release", "rev_returned",
                "rev_raised"} =>
          /\ left + right = Len(Before) - 1
          /\ ReversedOutside(left, right)
    /\ pc = "rev_left" =>
          /\ left + right = Len(Before) - 1
          /\ ReversedOutside(left + 1, right - 1)
    /\ pc = "rev_right" =>
          /\ left + right = Len(Before)
          /\ ReversedOutside(left, right - 1)

C21_Witness ==
    /\ pc = "rev_swap"
    /\ Before = Alphabet
    /\ left = 2 /\ right = 23
    /\ SubSeq(After, 1, 4) = <<122, 121, 99, 100>>
    /\ SubSeq(After, 23, 26) = <<119, 120, 98, 97>>

\* C22: for arrays of any common length, shorter than 4 or not a multiple
\* of 4 included, unrolled_loop leaves its result as normal_loop leaves its
\* own: x[i] + y[i] at every index. The 4-wide loop and the remainder
\* loop write no index twice, together write every index once, and never
\* reach an index the arrays do not have.
C22_UnrolledEqualsNormal ==
    /\ pc # "lp_raised"
    /\ \A j \in 1..Len(writes) : writes[j] <= 1
    /\ pc = "lp_done" =>
          /\ result_unrolled = result_normal
          /\ Len(result_unrolled) = Len(x)
          /\ \A j \in 1..Len(x) : result_unrolled[j] = x[j] + y[j]
          /\ \A j \in 1..Len(x) : writes[j] = 1

\* seven items: one round of the 4-wide loop and three of the remainder loop
C22_Witness ==
    /\ pc = "lp_done"
    /\ Len(x) = 7
    /\ result_unrolled = <<1, 5, 9, 13, 17, 21, 25>>
    /\ index = 6

\* C23: main_async is done, and asyncio.run has returned, only when all
\* three downloads have printed Finished; nothing is printed once
\* asyncio.run has returned; and when the interpreter and the loop keep
\* running, asyncio.run does return.
C23_CompletesAfterAllFinished ==
    /\ []((main = "done" \/ pc \in {"async_returned", "async_done"}) =>
            /\ Cardinality(Places("Finished")) = NumDownloads
            /\ \A f \in 0..(NumDownloads - 1) : coro[f] = "done")
    /\ [][(pc \in {"async_returned", "async_done"}) => (trace' = trace)]_vars
    /\ (pc = "async_run" ~> pc = "async_returned")

C23_Witness ==
    /\ pc = "async_returned"
    /\ main = "done"
    /\ stopping
    /\ nfinished = NumDownloads
    /\ trace[Len(trace)] = Event("Finished", NumDownloads - 1)
    /\ ready = <<>> /\ scheduled = <<>>

\* C24: every memoryview the notebook creates is released before the code
\* that created it finishes, whether reverse_inplace and build_packet return
\* or raise; in the mmap cell the view is released before the mapping is
\* closed, and the mapping is closed before the file.
C24_SafeRelease ==
    /\ (pc \in {"rev_returned", "rev_raised"} /\ mv # NoView) => mv.released
    /\ (pc \in {"bp_returned", "bp_raised", "bp_mutated"} /\ mv # NoView)
          => mv.released
    /\ mm.closed => mv_map.released
    /\ tmp.closed => mm.closed
    /\ pc = "mm_done" => (mv_map.released /\ mm.closed /\ tmp.closed)
    /\ pc # "mm_raised"
=============================================================================
